---- MODULE Spec2Model ----
(***************************************************************************)
(* A model of the istio-ocp-install command line script: main() of         *)
(* src/main.py and the OCP class of src/ocp/ocp.py.  One run of the script *)
(* is one behaviour: the environment, the command line and the files on    *)
(* disk are chosen in Init, and every statement of main(), OCP.install and *)
(* OCP.uninstall that touches the outside world is one action.             *)
(***************************************************************************)
EXTENDS Naturals, Integers, Sequences, FiniteSets, TLC

VARIABLES
    pc,       \* position of the single thread of control
    exc,      \* the exception that ended the run, None while there is none
    environ,  \* os.environ
    argv,     \* the command line, as the flags given
    moitt,    \* the Moitt object of main()
    ocp,      \* the OCP object of main(), NoOCP before it is built
    fs,       \* the paths that exist on disk
    dl,       \* fileSize and wrote of the download in progress
    trace,    \* the external commands and calls made so far, in order
    failed,   \* the steps that failed so far (history)
    start     \* os.environ and the disk as main() found them (history)

vars == <<pc, exc, environ, argv, moitt, ocp, fs, dl, trace, failed, start>>

-----------------------------------------------------------------------------
(* Values *)

None == "<None>"
Unset == "<unset>"

\* argparse's defaults, main.py:55-58
DefaultDirectory == "assets"
DefaultVersion == "4.3.9"
DefaultRelease == "stable"
\* os.getenv('QE1_PWD', 'qe1pw'), main.py:140
DefaultQE1Pwd == "qe1pw"
\* the choices of -c, main.py:54
Choices == {"ocp", "registry-puller", "istio"}

\* chunkSize of the downloads, ocp.py:59
chunkSize == 1024

\* Bounds of the model: body and Content-length sizes are multiples of
\* HalfChunk up to MaxHalfChunks of them.
MaxHalfChunks == 3
HalfChunk == chunkSize \div 2
Sizes == {n * HalfChunk : n \in 0..MaxHalfChunks}

\* exit codes of the external commands
RCs == {0, 1}

EnvNames == {"AWS_PROFILE", "PULL_SEC", "CR_FILE", "QE1_PWD", "KUBECONFIG"}

-----------------------------------------------------------------------------
(* Paths *)

KubeconfigOf(assets) == assets \o "/auth/kubeconfig"
PasswordOf(assets) == assets \o "/auth/kubeadmin-password"
InstallerTar == "openshift-install.tar.gz"
OcTar == "oc.tar.gz"
ConfigFile == "install-config.yaml"

\* everything the model knows below the assets directory: what rmtree removes
AssetsTree(assets) ==
    {assets, assets \o "/" \o ConfigFile, KubeconfigOf(assets), PasswordOf(assets)}

-----------------------------------------------------------------------------
(* Pure helpers *)

\* r.iter_content(chunkSize): the lengths of the chunks of a body of n bytes
RECURSIVE iter_content(_)
iter_content(n) ==
    IF n = 0 THEN <<>>
    ELSE IF n <= chunkSize THEN <<n>>
    ELSE <<chunkSize>> \o iter_content(n - chunkSize)

\* the loop "wrote = wrote + len(chunk)", ocp.py:61-65
RECURSIVE Wrote(_)
Wrote(chunks) ==
    IF chunks = <<>> THEN 0 ELSE Head(chunks) + Wrote(Tail(chunks))

\* Faulty variant of Incomplete (C7): only a short body counts
Incomplete_short(fileSize, wrote) == fileSize # 0 /\ wrote < fileSize

\* the completeness test of a download, ocp.py:66
Incomplete(fileSize, wrote) == fileSize # 0 /\ wrote # fileSize

\* OCP.__init__'s two URLs, ocp.py:39-40
InstallerUrl(version) ==
    "https://mirror.openshift.com/pub/openshift-v4/clients/ocp/" \o version
        \o "/openshift-install-linux-" \o version \o ".tar.gz"
OcUrl(version) ==
    "https://mirror.openshift.com/pub/openshift-v4/clients/ocp/" \o version
        \o "/openshift-client-linux-" \o version \o ".tar.gz"

\* oc logins minus oc logouts in a trace
RECURSIVE Outstanding(_)
Outstanding(t) ==
    IF t = <<>> THEN 0
    ELSE LET e == t[Len(t)]
             rest == Outstanding(SubSeq(t, 1, Len(t) - 1))
         IN  IF Len(e) >= 2 /\ e[1] = "oc" /\ e[2] = "login" THEN rest + 1
             ELSE IF Len(e) >= 2 /\ e[1] = "oc" /\ e[2] = "logout" THEN rest - 1
             ELSE rest

-----------------------------------------------------------------------------
(* Control helpers *)

Raise(e) == pc' = "raised" /\ exc' = e
Goto(l) == pc' = l /\ exc' = exc
Emit(e) == trace' = Append(trace, e)
Fail(what) == failed' = failed \cup {what}

-----------------------------------------------------------------------------
(* Init: the state when main() is entered *)

\* the name ocp before main() binds it
NoOCP ==
    [profile |-> None, assets |-> None, installer_url |-> None,
     oc_url |-> None, config |-> None]

NewMoitt ==
    [profile |-> None, pullsec |-> None, crfile |-> None,
     install |-> FALSE, uninstall |-> FALSE, component |-> None,
     assets |-> None, version |-> None, quay |-> FALSE, release |-> None]

Init ==
    /\ pc = "envParse"
    /\ exc = None
    /\ environ \in [EnvNames -> {Unset, "", "v"}]
    /\ environ["CR_FILE"] # ""
    /\ environ["QE1_PWD"] # ""
    /\ environ["KUBECONFIG"] # ""
    /\ argv \in [i : BOOLEAN, u : BOOLEAN, c : Choices \cup {None, "bogus"},
                 d : {None, "ocp4"}, v : {None}, q : BOOLEAN, r : {None}]
    /\ moitt = NewMoitt
    /\ ocp = NoOCP
    /\ LET a == IF argv.d = None THEN DefaultDirectory ELSE argv.d
       IN  \E have \in SUBSET {ConfigFile, a, PasswordOf(a)} :
              /\ (PasswordOf(a) \in have => a \in have)
              /\ fs = have
    /\ dl = [fileSize |-> 0, wrote |-> 0]
    /\ trace = <<>>
    /\ failed = {}
    /\ start = [environ |-> environ, fs |-> fs]

-----------------------------------------------------------------------------
(* Moitt *)

envParse ==
    /\ pc = "envParse"
    /\ moitt' = [moitt EXCEPT
         !.profile = IF environ["AWS_PROFILE"] # Unset
                     THEN environ["AWS_PROFILE"] ELSE @,
         !.pullsec = IF environ["PULL_SEC"] # Unset
                     THEN environ["PULL_SEC"] ELSE @,
         !.crfile  = IF environ["CR_FILE"] # Unset
                     THEN environ["CR_FILE"] ELSE @]
    /\ Goto("argParse")
    /\ UNCHANGED <<environ, start, argv, ocp, fs, dl, trace, failed>>

\* Faulty variant of ArgsRejected (C3): -i and -u are two plain optional flags
ArgsRejected_nogroup(a) == a.c \notin Choices \cup {None}

\* parser.parse_args() leaves through SystemExit when the required, mutually
\* exclusive group -i/-u is not given exactly once or -c is no choice
ArgsRejected(a) ==
    \/ a.i /\ a.u
    \/ ~a.i /\ ~a.u
    \/ a.c \notin Choices \cup {None}

argParse ==
    /\ pc = "argParse"
    /\ IF ArgsRejected(argv)
       THEN /\ Raise("SystemExit")
            /\ Fail("argParse")
            /\ UNCHANGED moitt
       ELSE /\ moitt' = [moitt EXCEPT
                 !.install = argv.i,
                 !.uninstall = argv.u,
                 !.component = argv.c,
                 !.assets = IF argv.d = None THEN DefaultDirectory ELSE argv.d,
                 !.version = IF argv.v = None THEN DefaultVersion ELSE argv.v,
                 !.quay = argv.q,
                 !.release = IF argv.r = None THEN DefaultRelease ELSE argv.r]
            /\ Goto("main_profile")
            /\ UNCHANGED failed
    /\ UNCHANGED <<environ, start, argv, ocp, fs, dl, trace>>

-----------------------------------------------------------------------------
(* main(): the prelude *)

\* Python's "not s" for a str or None
Falsy(s) == s = None \/ s = ""

main_profile ==
    /\ pc = "main_profile"
    /\ IF Falsy(moitt.profile)
       THEN Raise("KeyError") /\ Fail("AWS_PROFILE")
       ELSE Goto("main_pullsec") /\ UNCHANGED failed
    /\ UNCHANGED <<environ, start, argv, moitt, ocp, fs, dl, trace>>

\* Faulty variant of main_pullsec (C2): PULL_SEC is not looked at
main_pullsec_unchecked ==
    /\ pc = "main_pullsec"
    /\ Goto("main_ocp")
    /\ UNCHANGED <<environ, start, argv, moitt, ocp, fs, dl, trace, failed>>

main_pullsec ==
    /\ pc = "main_pullsec"
    /\ IF Falsy(moitt.pullsec)
       THEN Raise("KeyError") /\ Fail("PULL_SEC")
       ELSE Goto("main_ocp") /\ UNCHANGED failed
    /\ UNCHANGED <<environ, start, argv, moitt, ocp, fs, dl, trace>>

\* ocp = OCP(profile=..., assets=..., version=...)
main_ocp ==
    /\ pc = "main_ocp"
    /\ ocp' = [profile |-> moitt.profile, assets |-> moitt.assets,
               installer_url |-> InstallerUrl(moitt.version),
               oc_url |-> OcUrl(moitt.version),
               config |-> ConfigFile]
    /\ Goto("main_kubeconfig")
    /\ UNCHANGED <<environ, start, argv, moitt, fs, dl, trace, failed>>

main_kubeconfig ==
    /\ pc = "main_kubeconfig"
    /\ environ' = [environ EXCEPT !["KUBECONFIG"] = KubeconfigOf(moitt.assets)]
    /\ Goto("if_ocp")
    /\ UNCHANGED <<start, argv, moitt, ocp, fs, dl, trace, failed>>

-----------------------------------------------------------------------------
(* OCP.install, ocp.py:43-112 *)

\* one download: requests.get, the chunk loop and the completeness test.
\* The server chooses the Content-length header and the body it sends.
Download(what, tar, next) ==
    \E fileSize \in Sizes, body \in Sizes :
        LET wrote == Wrote(iter_content(body)) IN
        /\ dl' = [fileSize |-> fileSize, wrote |-> wrote]
        /\ fs' = fs \cup {tar}
        /\ Emit(<<"download", what>>)
        /\ IF Incomplete(fileSize, wrote)
           THEN Raise("RuntimeError") /\ Fail("download " \o what)
           ELSE Goto(next) /\ UNCHANGED failed

\* unpack_archive, os.remove, shutil.move, os.chmod of the installer.
\* An empty file is no archive: unpack_archive raises ReadError.
UnpackInstaller(next) ==
    IF dl.wrote = 0
    THEN /\ Raise("ReadError")
         /\ Fail("unpack installer")
         /\ UNCHANGED <<fs, trace>>
    ELSE /\ fs' = (fs \ {InstallerTar}) \cup {"./openshift-install"}
         /\ Emit(<<"unpack", "installer">>)
         /\ Goto(next)
         /\ UNCHANGED failed

\* Faulty variant of install_aws (C8): the exit code of aws is not looked at
install_aws_unchecked ==
    /\ pc = "install_aws"
    /\ \E rc \in RCs :
         /\ Emit(<<"aws", "--version">>)
         /\ IF rc # 0 THEN Fail("aws --version") ELSE UNCHANGED failed
    /\ Goto("install_profile")
    /\ UNCHANGED <<environ, start, argv, moitt, ocp, fs, dl>>

install_aws ==
    /\ pc = "install_aws"
    /\ \E rc \in RCs :
         /\ Emit(<<"aws", "--version">>)
         /\ IF rc # 0
            THEN Raise("RuntimeError") /\ Fail("aws --version")
            ELSE Goto("install_profile") /\ UNCHANGED failed
    /\ UNCHANGED <<environ, start, argv, moitt, ocp, fs, dl>>

install_profile ==
    /\ pc = "install_profile"
    /\ environ' = [environ EXCEPT !["AWS_PROFILE"] = ocp.profile]
    /\ Goto("install_download_installer")
    /\ UNCHANGED <<start, argv, moitt, ocp, fs, dl, trace, failed>>

install_download_installer ==
    /\ pc = "install_download_installer"
    /\ Download("installer", InstallerTar, "install_unpack_installer")
    /\ UNCHANGED <<environ, start, argv, moitt, ocp>>

install_unpack_installer ==
    /\ pc = "install_unpack_installer"
    /\ UnpackInstaller("install_makedirs")
    /\ UNCHANGED <<environ, start, argv, moitt, ocp, dl>>

\* os.makedirs(self.assets, exist_ok=True) and the copy of install-config.yaml
install_makedirs ==
    /\ pc = "install_makedirs"
    /\ fs' = fs \cup {ocp.assets}
                \cup (IF ocp.config \in fs
                      THEN {ocp.assets \o "/" \o ocp.config} ELSE {})
    /\ Goto("install_create_cluster")
    /\ UNCHANGED <<environ, start, argv, moitt, ocp, dl, trace, failed>>

\* sp.run([...'create', 'cluster'], check=False): the exit code is not read.
\* A successful installer writes auth/kubeconfig and auth/kubeadmin-password.
install_create_cluster ==
    /\ pc = "install_create_cluster"
    /\ \E rc \in RCs :
         /\ Emit(<<"./openshift-install", "--dir=" \o ocp.assets, "create", "cluster">>)
         /\ IF rc = 0
            THEN /\ fs' = fs \cup {KubeconfigOf(ocp.assets), PasswordOf(ocp.assets)}
                 /\ UNCHANGED failed
            ELSE /\ Fail("create cluster")
                 /\ UNCHANGED fs
    /\ Goto("install_kubeconfig")
    /\ UNCHANGED <<environ, start, argv, moitt, ocp, dl>>

install_kubeconfig ==
    /\ pc = "install_kubeconfig"
    /\ environ' = [environ EXCEPT !["KUBECONFIG"] = KubeconfigOf(ocp.assets)]
    /\ Goto("install_download_oc")
    /\ UNCHANGED <<start, argv, moitt, ocp, fs, dl, trace, failed>>

install_download_oc ==
    /\ pc = "install_download_oc"
    /\ Download("oc", OcTar, "install_unpack_oc")
    /\ UNCHANGED <<environ, start, argv, moitt, ocp>>

\* unpack_archive('oc.tar.gz', 'client'), os.remove, the chmods and the
\* symlink: afterwards client/oc and client/kubectl both exist
install_unpack_oc ==
    /\ pc = "install_unpack_oc"
    /\ IF dl.wrote = 0
       THEN /\ Raise("ReadError")
            /\ Fail("unpack oc")
            /\ UNCHANGED <<fs, trace>>
       ELSE /\ fs' = (fs \ {OcTar}) \cup {"client/oc", "client/kubectl"}
            /\ Emit(<<"unpack", "oc">>)
            /\ Goto("install_move_oc")
            /\ UNCHANGED failed
    /\ UNCHANGED <<environ, start, argv, moitt, ocp, dl>>

install_move_oc ==
    /\ pc = "install_move_oc"
    /\ fs' = (fs \ {"client/oc", "client/kubectl"})
                \cup {"$HOME/bin/oc", "$HOME/bin/kubectl"}
    /\ Emit(<<"move", "oc", "kubectl">>)
    /\ Goto("install_cluster_info")
    /\ UNCHANGED <<environ, start, argv, moitt, ocp, dl, failed>>

\* sp.run(['kubectl', 'cluster-info']): the exit code is not read; install returns
install_cluster_info ==
    /\ pc = "install_cluster_info"
    /\ \E rc \in RCs :
         /\ Emit(<<"kubectl", "cluster-info">>)
         /\ IF rc = 0 THEN UNCHANGED failed ELSE Fail("kubectl cluster-info")
    /\ Goto("ocp_read_pw")
    /\ UNCHANGED <<environ, start, argv, moitt, ocp, fs, dl>>

-----------------------------------------------------------------------------
(* OCP.uninstall, ocp.py:136-164 *)

uninstall_profile ==
    /\ pc = "uninstall_profile"
    /\ environ' = [environ EXCEPT !["AWS_PROFILE"] = ocp.profile]
    /\ Goto("uninstall_download_installer")
    /\ UNCHANGED <<start, argv, moitt, ocp, fs, dl, trace, failed>>

uninstall_download_installer ==
    /\ pc = "uninstall_download_installer"
    /\ Download("installer", InstallerTar, "uninstall_unpack_installer")
    /\ UNCHANGED <<environ, start, argv, moitt, ocp>>

uninstall_unpack_installer ==
    /\ pc = "uninstall_unpack_installer"
    /\ UnpackInstaller("uninstall_destroy")
    /\ UNCHANGED <<environ, start, argv, moitt, ocp, dl>>

\* Faulty variant of uninstall_destroy (C1): check=False, the exit code only
\* guards the removal
uninstall_destroy_unchecked ==
    /\ pc = "uninstall_destroy"
    /\ \E rc \in RCs :
         /\ Emit(<<"./openshift-install", "--dir=" \o ocp.assets, "destroy", "cluster",
                   "--log-level=debug">>)
         /\ IF rc # 0
            THEN /\ Goto("if_puller")
                 /\ Fail("destroy cluster")
                 /\ UNCHANGED fs
            ELSE IF ocp.assets \notin fs
            THEN /\ Raise("FileNotFoundError")
                 /\ Fail("rmtree")
                 /\ UNCHANGED fs
            ELSE /\ fs' = (fs \ AssetsTree(ocp.assets)) \ {"./openshift-install"}
                 /\ Goto("if_puller")
                 /\ UNCHANGED failed
    /\ UNCHANGED <<environ, start, argv, moitt, ocp, dl>>

\* Faulty variant of uninstall_destroy (C6): the removal comes before the
\* exit code is looked at
uninstall_destroy_eager ==
    /\ pc = "uninstall_destroy"
    /\ \E rc \in RCs :
         /\ Emit(<<"./openshift-install", "--dir=" \o ocp.assets, "destroy", "cluster",
                   "--log-level=debug">>)
         /\ fs' = (fs \ AssetsTree(ocp.assets)) \ {"./openshift-install"}
         /\ IF rc # 0
            THEN Raise("CalledProcessError") /\ Fail("destroy cluster")
            ELSE Goto("if_puller") /\ UNCHANGED failed
    /\ UNCHANGED <<environ, start, argv, moitt, ocp, dl>>

\* sp.run([...'destroy', 'cluster', ...], check=True) raises CalledProcessError
\* on a non-zero exit; otherwise rmtree(self.assets), which raises when the
\* directory does not exist, and os.remove('openshift-install')
uninstall_destroy ==
    /\ pc = "uninstall_destroy"
    /\ \E rc \in RCs :
         /\ Emit(<<"./openshift-install", "--dir=" \o ocp.assets, "destroy", "cluster",
                   "--log-level=debug">>)
         /\ IF rc # 0
            THEN /\ Raise("CalledProcessError")
                 /\ Fail("destroy cluster")
                 /\ UNCHANGED fs
            ELSE IF ocp.assets \notin fs
            THEN /\ Raise("FileNotFoundError")
                 /\ Fail("rmtree")
                 /\ UNCHANGED fs
            ELSE /\ fs' = (fs \ AssetsTree(ocp.assets)) \ {"./openshift-install"}
                 /\ Goto("if_puller")
                 /\ UNCHANGED failed
    /\ UNCHANGED <<environ, start, argv, moitt, ocp, dl>>

-----------------------------------------------------------------------------
(* OCP.login, OCP.logout, OCP.create_users, ocp.py:115-134; none of them
   reads the exit code of the command it runs *)

login(user, pw, next) ==
    /\ environ' = [environ EXCEPT !["KUBECONFIG"] = KubeconfigOf(ocp.assets)]
    /\ \E rc \in RCs :
         /\ Emit(<<"oc", "login", "-u", user, "-p", pw>>)
         /\ IF rc = 0 THEN UNCHANGED failed ELSE Fail("oc login")
    /\ Goto(next)
    /\ UNCHANGED <<start, argv, moitt, ocp, fs, dl>>

logout(next) ==
    /\ \E rc \in RCs :
         /\ Emit(<<"oc", "logout">>)
         /\ IF rc = 0 THEN UNCHANGED failed ELSE Fail("oc logout")
    /\ Goto(next)
    /\ UNCHANGED <<environ, start, argv, moitt, ocp, fs, dl>>

create_users(next) ==
    /\ \E rc \in RCs :
         /\ Emit(<<"scripts/user-creation.sh">>)
         /\ IF rc = 0 THEN UNCHANGED failed ELSE Fail("create_users")
    /\ Goto(next)
    /\ UNCHANGED <<environ, start, argv, moitt, ocp, fs, dl>>

-----------------------------------------------------------------------------
(* main(): what it calls in the puller and istio packages.  A call returns
   or raises; main() catches nothing. *)

Call(name, next) ==
    /\ Emit(name)
    /\ \E ok \in BOOLEAN :
         IF ok THEN Goto(next) /\ UNCHANGED failed
               ELSE Raise("Exception") /\ Fail(name[1])
    /\ UNCHANGED <<environ, start, argv, moitt, ocp, fs, dl>>

\* with open(moitt.assets + '/auth/kubeadmin-password') as f: pw = f.read()
KubeadminPw == "<kubeadmin-password>"

read_pw(next) ==
    /\ IF PasswordOf(moitt.assets) \in fs
       THEN Goto(next) /\ UNCHANGED failed
       ELSE Raise("FileNotFoundError") /\ Fail("read kubeadmin-password")
    /\ UNCHANGED <<environ, start, argv, moitt, ocp, fs, dl, trace>>

\* os.getenv('QE1_PWD', 'qe1pw')
QE1Pwd == IF environ["QE1_PWD"] = Unset THEN DefaultQE1Pwd ELSE environ["QE1_PWD"]

Skip(next) ==
    /\ Goto(next)
    /\ UNCHANGED <<environ, start, argv, moitt, ocp, fs, dl, trace, failed>>

-----------------------------------------------------------------------------
(* main(): the ocp branch, main.py:82-97 *)

if_ocp ==
    /\ pc = "if_ocp"
    /\ IF moitt.component = "ocp"
       THEN IF moitt.install THEN Skip("install_aws")
            ELSE IF moitt.uninstall THEN Skip("uninstall_profile")
            ELSE Skip("if_puller")
       ELSE Skip("if_puller")

ocp_read_pw == pc = "ocp_read_pw" /\ read_pw("ocp_login")
ocp_login == pc = "ocp_login" /\ login("kubeadmin", KubeadminPw, "ocp_create_users")
ocp_create_users == pc = "ocp_create_users" /\ create_users("ocp_logout")
ocp_logout == pc = "ocp_logout" /\ logout("if_puller")

-----------------------------------------------------------------------------
(* main(): the registry-puller branch, main.py:99-110 *)

\* Faulty variant of if_puller (C4): the branch is entered whatever -c names
if_puller_any ==
    /\ pc = "if_puller"
    /\ Skip("puller_read_pw")

if_puller ==
    /\ pc = "if_puller"
    /\ IF moitt.component = "registry-puller"
       THEN Skip("puller_read_pw")
       ELSE Skip("if_istio")

puller_read_pw == pc = "puller_read_pw" /\ read_pw("puller_login")
puller_login ==
    /\ pc = "puller_login"
    /\ login("kubeadmin", KubeadminPw,
             IF moitt.install THEN "puller_build" ELSE "puller_logout")
puller_build == pc = "puller_build" /\ Call(<<"puller.build">>, "puller_execute")
puller_execute == pc = "puller_execute" /\ Call(<<"puller.execute">>, "puller_logout")
puller_logout == pc = "puller_logout" /\ logout("if_istio")

-----------------------------------------------------------------------------
(* main(): the istio branch, main.py:112-165 *)

if_istio ==
    /\ pc = "if_istio"
    /\ IF moitt.component = "istio"
       THEN IF moitt.install THEN Skip("istio_read_pw")
            ELSE IF moitt.uninstall THEN Skip("unistio_login_qe1")
            ELSE Skip("done")
       ELSE Skip("done")

\* install: the operators, as kubeadmin
istio_read_pw == pc = "istio_read_pw" /\ read_pw("istio_login_kubeadmin")
istio_login_kubeadmin ==
    /\ pc = "istio_login_kubeadmin"
    /\ login("kubeadmin", KubeadminPw,
             IF moitt.quay THEN "istio_update_quay_token" ELSE "istio_deploy_jaeger")
istio_update_quay_token ==
    /\ pc = "istio_update_quay_token"
    /\ Call(<<"operator.update_quay_token">>, "istio_apply_operator_source")
istio_apply_operator_source ==
    /\ pc = "istio_apply_operator_source"
    /\ Call(<<"operator.apply_operator_source">>, "istio_deploy_jaeger")
istio_deploy_jaeger ==
    /\ pc = "istio_deploy_jaeger"
    /\ Call(<<"operator.deploy_jaeger">>, "istio_deploy_kiali")
istio_deploy_kiali ==
    /\ pc = "istio_deploy_kiali"
    /\ Call(<<"operator.deploy_kiali">>, "istio_deploy_istio")
istio_deploy_istio ==
    /\ pc = "istio_deploy_istio"
    /\ Call(<<"operator.deploy_istio">>, "istio_patch41")
\* Faulty variant of istio_patch41 (C5): operator.check() is left out
istio_patch41_unchecked ==
    /\ pc = "istio_patch41"
    /\ Call(<<"operator.patch41">>, "istio_logout_kubeadmin")
istio_patch41 ==
    /\ pc = "istio_patch41"
    /\ Call(<<"operator.patch41">>, "istio_operator_check")
istio_operator_check ==
    /\ pc = "istio_operator_check"
    /\ Call(<<"operator.check">>, "istio_logout_kubeadmin")
\* Faulty variant of istio_logout_kubeadmin (C10): the first logout is left out
istio_logout_kubeadmin_missing ==
    /\ pc = "istio_logout_kubeadmin"
    /\ Skip("istio_login_qe1")
istio_logout_kubeadmin ==
    /\ pc = "istio_logout_kubeadmin"
    /\ logout("istio_login_qe1")

\* install: the control plane, as qe1
istio_login_qe1 ==
    /\ pc = "istio_login_qe1"
    /\ login("qe1", QE1Pwd, "istio_cp_install")
istio_cp_install ==
    /\ pc = "istio_cp_install"
    /\ Call(<<"cp.install", moitt.crfile>>, "istio_cp_create_ns")
istio_cp_create_ns ==
    /\ pc = "istio_cp_create_ns"
    /\ Call(<<"cp.create_ns">>, "istio_cp_apply_smmr")
istio_cp_apply_smmr ==
    /\ pc = "istio_cp_apply_smmr"
    /\ Call(<<"cp.apply_smmr">>, "istio_cp_smoke_check")
istio_cp_smoke_check ==
    /\ pc = "istio_cp_smoke_check"
    /\ Call(<<"cp.smoke_check">>, "istio_cp_check")
istio_cp_check ==
    /\ pc = "istio_cp_check"
    /\ Call(<<"cp.check">>, "istio_logout_qe1")
istio_logout_qe1 ==
    /\ pc = "istio_logout_qe1"
    /\ logout("done")

\* uninstall: the control plane as qe1, then the operators as kubeadmin
unistio_login_qe1 ==
    /\ pc = "unistio_login_qe1"
    /\ login("qe1", QE1Pwd, "unistio_cp_uninstall")
unistio_cp_uninstall ==
    /\ pc = "unistio_cp_uninstall"
    /\ Call(<<"cp.uninstall", moitt.crfile>>, "unistio_logout_qe1")
unistio_logout_qe1 ==
    /\ pc = "unistio_logout_qe1"
    /\ logout("unistio_read_pw")
unistio_read_pw == pc = "unistio_read_pw" /\ read_pw("unistio_login_kubeadmin")
unistio_login_kubeadmin ==
    /\ pc = "unistio_login_kubeadmin"
    /\ login("kubeadmin", KubeadminPw, "unistio_operator_uninstall")
\* Faulty variant of unistio_operator_uninstall (C9): -q is not looked at
unistio_operator_uninstall_ungated ==
    /\ pc = "unistio_operator_uninstall"
    /\ Call(<<"operator.uninstall">>, "unistio_uninstall_operator_source")
unistio_operator_uninstall ==
    /\ pc = "unistio_operator_uninstall"
    /\ Call(<<"operator.uninstall">>,
            IF moitt.quay THEN "unistio_uninstall_operator_source"
                          ELSE "unistio_logout_kubeadmin")
unistio_uninstall_operator_source ==
    /\ pc = "unistio_uninstall_operator_source"
    /\ Call(<<"operator.uninstall_operator_source">>, "unistio_logout_kubeadmin")
unistio_logout_kubeadmin ==
    /\ pc = "unistio_logout_kubeadmin"
    /\ logout("done")

-----------------------------------------------------------------------------

Next ==
    \/ envParse
    \/ argParse
    \/ main_profile
    \/ main_pullsec
    \/ main_ocp
    \/ main_kubeconfig
    \/ if_ocp
    \/ install_aws
    \/ install_profile
    \/ install_download_installer
    \/ install_unpack_installer
    \/ install_makedirs
    \/ install_create_cluster
    \/ install_kubeconfig
    \/ install_download_oc
    \/ install_unpack_oc
    \/ install_move_oc
    \/ install_cluster_info
    \/ ocp_read_pw
    \/ ocp_login
    \/ ocp_create_users
    \/ ocp_logout
    \/ uninstall_profile
    \/ uninstall_download_installer
    \/ uninstall_unpack_installer
    \/ uninstall_destroy
    \/ if_puller
    \/ puller_read_pw
    \/ puller_login
    \/ puller_build
    \/ puller_execute
    \/ puller_logout
    \/ if_istio
    \/ istio_read_pw
    \/ istio_login_kubeadmin
    \/ istio_update_quay_token
    \/ istio_apply_operator_source
    \/ istio_deploy_jaeger
    \/ istio_deploy_kiali
    \/ istio_deploy_istio
    \/ istio_patch41
    \/ istio_operator_check
    \/ istio_logout_kubeadmin
    \/ istio_login_qe1
    \/ istio_cp_install
    \/ istio_cp_create_ns
    \/ istio_cp_apply_smmr
    \/ istio_cp_smoke_check
    \/ istio_cp_check
    \/ istio_logout_qe1
    \/ unistio_login_qe1
    \/ unistio_cp_uninstall
    \/ unistio_logout_qe1
    \/ unistio_read_pw
    \/ unistio_login_kubeadmin
    \/ unistio_operator_uninstall
    \/ unistio_uninstall_operator_source
    \/ unistio_logout_kubeadmin

Spec == Init /\ [][Next]_vars

-----------------------------------------------------------------------------
(* Vocabulary of the properties *)

Events == {trace[k] : k \in 1..Len(trace)}

\* a short name for an entry of trace
Name(e) ==
    IF e[1] = "oc" THEN (IF e[2] = "login" THEN "login " \o e[4] ELSE "logout")
    ELSE IF e[1] = "./openshift-install" THEN e[3] \o " cluster"
    ELSE IF e[1] \in {"download", "unpack"} THEN e[1] \o " " \o e[2]
    ELSE e[1]

Names == [k \in 1..Len(trace) |-> Name(trace[k])]
NameSet == {Name(e) : e \in Events}

IsPrefix(s, t) == Len(s) <= Len(t) /\ SubSeq(t, 1, Len(s)) = s

Missing(name) == start.environ[name] \in {Unset, ""}

Parsed == pc \notin {"envParse", "argParse"} /\ exc # "SystemExit"

\* failures whose exit code the script never reads
Ignored ==
    {"create cluster", "kubectl cluster-info", "oc login", "oc logout", "create_users"}

-----------------------------------------------------------------------------
(* C1 *)

\* C1, as stated: every failed step terminates the run with an exception.
C1_AnyFailureRaises == failed # {} => pc = "raised"

C1_Raises == (failed \ Ignored # {}) <=> (pc = "raised" /\ exc # None)
C1_Stops == [][pc = "raised" => UNCHANGED vars]_vars

\* C1, amended: a missing AWS_PROFILE or PULL_SEC, a rejected command line, a
\* non-zero exit of `aws --version` or of `openshift-install destroy cluster`,
\* an incomplete download, an unreadable archive or password file and an
\* exception of a puller/operator/control-plane call end the run with an
\* exception, after which no step is executed; a non-zero exit of
\* `openshift-install create cluster`, `oc login`, `oc logout`,
\* `kubectl cluster-info` or the user creation script is not read and never
\* ends the run.
C1_FailuresThatRaise == []C1_Raises /\ C1_Stops

C1_Witness ==
    /\ pc = "raised"
    /\ exc = "RuntimeError"
    /\ {"create cluster", "download oc"} \subseteq failed

-----------------------------------------------------------------------------
(* C2 *)

\* C2: when AWS_PROFILE or PULL_SEC is unset or empty, a run whose command
\* line parses ends in KeyError with the OCP object not built, KUBECONFIG and
\* the rest of the environment as they were, no command run and the disk
\* untouched; KeyError has no other cause, whatever CR_FILE and QE1_PWD are.
C2_RequiredEnvironment ==
    /\ (Missing("AWS_PROFILE") \/ Missing("PULL_SEC")) =>
          /\ pc \in {"envParse", "argParse", "main_profile", "main_pullsec", "raised"}
          /\ (pc = "raised" => exc \in {"KeyError", "SystemExit"})
          /\ (pc = "raised" /\ ~ArgsRejected(argv) => exc = "KeyError")
          /\ ocp = NoOCP
          /\ environ = start.environ
          /\ fs = start.fs
          /\ trace = <<>>
    /\ (exc = "KeyError" => Missing("AWS_PROFILE") \/ Missing("PULL_SEC"))
    /\ (~Missing("AWS_PROFILE") /\ ~Missing("PULL_SEC") /\ ~ArgsRejected(argv)
          /\ pc \in {"main_profile", "main_pullsec"} => ENABLED Next)

C2_Witness ==
    /\ pc = "raised"
    /\ exc = "KeyError"
    /\ start.environ["AWS_PROFILE"] = "v"
    /\ start.environ["PULL_SEC"] = ""
    /\ start.environ["KUBECONFIG"] = "v"
    /\ argv.c = "istio"

-----------------------------------------------------------------------------
(* C3 *)

InstallSteps ==
    {"aws", "create cluster", "scripts/user-creation.sh", "puller.build",
     "puller.execute", "operator.update_quay_token",
     "operator.apply_operator_source", "operator.deploy_jaeger",
     "operator.deploy_kiali", "operator.deploy_istio", "operator.patch41",
     "operator.check", "cp.install", "cp.create_ns", "cp.apply_smmr",
     "cp.smoke_check", "cp.check"}
UninstallSteps ==
    {"destroy cluster", "cp.uninstall", "operator.uninstall",
     "operator.uninstall_operator_source"}

\* C3: past argument parsing exactly one of moitt.install and
\* moitt.uninstall is true; install steps run only with install, uninstall
\* steps only with uninstall, never both in one run, and no command at all
\* runs with neither.
C3_InstallXorUninstall ==
    /\ Parsed => (moitt.install # moitt.uninstall)
    /\ (NameSet \cap InstallSteps # {} => moitt.install)
    /\ (NameSet \cap UninstallSteps # {} => moitt.uninstall)
    /\ ~(NameSet \cap InstallSteps # {} /\ NameSet \cap UninstallSteps # {})
    /\ (trace # <<>> => moitt.install \/ moitt.uninstall)

C3_Witness ==
    /\ pc = "done"
    /\ "destroy cluster" \in NameSet
    /\ moitt.uninstall
    /\ ~moitt.install

-----------------------------------------------------------------------------
(* C4 *)

OcpSteps ==
    {"aws", "download installer", "unpack installer", "create cluster",
     "download oc", "unpack oc", "move", "kubectl", "destroy cluster",
     "scripts/user-creation.sh"}
PullerSteps == {"puller.build", "puller.execute"}
IstioSteps ==
    (InstallSteps \cup UninstallSteps \cup {"login qe1"}) \ (OcpSteps \cup PullerSteps)
Sessions == {"login kubeadmin", "logout"}

BranchSteps(component) ==
    IF component = "ocp" THEN OcpSteps \cup Sessions
    ELSE IF component = "registry-puller" THEN PullerSteps \cup Sessions
    ELSE IF component = "istio" THEN IstioSteps \cup Sessions
    ELSE {}

\* C4: every command of a run belongs to the branch that -c names, and a
\* run without -c, with both required variables set, runs no command and
\* returns normally with nothing changed but KUBECONFIG.
C4_OneBranch ==
    /\ NameSet \subseteq BranchSteps(moitt.component)
    /\ (Parsed /\ moitt.component = None =>
          /\ pc \in {"main_profile", "main_pullsec", "main_ocp", "main_kubeconfig",
                     "if_ocp", "if_puller", "if_istio", "done", "raised"}
          /\ (pc = "raised" => exc = "KeyError")
          /\ fs = start.fs
          /\ \A n \in EnvNames \ {"KUBECONFIG"} : environ[n] = start.environ[n]
          /\ (pc = "done" => environ["KUBECONFIG"] = KubeconfigOf(moitt.assets))
          /\ (pc # "done" /\ pc # "raised" => ENABLED Next))

C4_Witness ==
    /\ pc = "done"
    /\ moitt.component = None
    /\ trace = <<>>
    /\ exc = None
    /\ environ["KUBECONFIG"] = KubeconfigOf(DefaultDirectory)
    /\ start.environ["KUBECONFIG"] = Unset

-----------------------------------------------------------------------------
(* C5 *)

QuaySteps ==
    {"operator.update_quay_token", "operator.apply_operator_source",
     "operator.uninstall_operator_source"}

RECURSIVE Without(_, _)
Without(s, drop) ==
    IF s = <<>> THEN <<>>
    ELSE IF Head(s) \in drop THEN Without(Tail(s), drop)
    ELSE <<Head(s)>> \o Without(Tail(s), drop)

IstioInstallOrder ==
    <<"login kubeadmin", "operator.deploy_jaeger", "operator.deploy_kiali",
      "operator.deploy_istio", "operator.patch41", "operator.check", "logout",
      "login qe1", "cp.install", "cp.create_ns", "cp.apply_smmr",
      "cp.smoke_check", "cp.check", "logout">>
IstioUninstallOrder ==
    <<"login qe1", "cp.uninstall", "logout",
      "login kubeadmin", "operator.uninstall", "logout">>

Istio(op) == Parsed /\ moitt.component = "istio" /\ moitt[op]

\* C5: leaving the quay steps aside, the commands of `-i -c istio` are a
\* prefix of login kubeadmin, deploy_jaeger, deploy_kiali, deploy_istio,
\* patch41, operator.check, logout, login qe1, cp.install, cp.create_ns,
\* cp.apply_smmr, cp.smoke_check, cp.check, logout, and those of
\* `-u -c istio` a prefix of login qe1, cp.uninstall, logout, login
\* kubeadmin, operator.uninstall, logout; a run that returns has made all of
\* them.
C5_IstioOrder ==
    /\ (Istio("install") =>
          /\ IsPrefix(Without(Names, QuaySteps), IstioInstallOrder)
          /\ (pc = "done" => Without(Names, QuaySteps) = IstioInstallOrder))
    /\ (Istio("uninstall") =>
          /\ IsPrefix(Without(Names, QuaySteps), IstioUninstallOrder)
          /\ (pc = "done" => Without(Names, QuaySteps) = IstioUninstallOrder))

C5_Witness ==
    /\ pc = "done"
    /\ Istio("install")
    /\ "cp.check" \in NameSet
    /\ <<"oc", "login", "-u", "qe1", "-p", DefaultQE1Pwd>> \in Events

-----------------------------------------------------------------------------
(* C6 *)

OcpUninstall == Parsed /\ moitt.component = "ocp" /\ moitt.uninstall

\* C6: in `-u -c ocp` the assets directory and ./openshift-install are
\* removed only in a run whose `destroy cluster` exited with 0 after a
\* complete download; a non-zero exit of destroy or an incomplete download
\* ends the run with an exception and leaves everything below the assets
\* directory as it was.
C6_RemoveOnlyAfterDestroy ==
    OcpUninstall =>
        /\ (fs \cap AssetsTree(moitt.assets) # start.fs \cap AssetsTree(moitt.assets)
              \/ ("unpack installer" \in NameSet /\ "./openshift-install" \notin fs)
            => /\ "destroy cluster" \in NameSet
               /\ "destroy cluster" \notin failed
               /\ "download installer" \notin failed)
        /\ ("destroy cluster" \in failed =>
              /\ pc = "raised"
              /\ exc = "CalledProcessError"
              /\ "./openshift-install" \in fs
              /\ fs \cap AssetsTree(moitt.assets) = start.fs \cap AssetsTree(moitt.assets))
        /\ ("download installer" \in failed =>
              /\ pc = "raised"
              /\ exc = "RuntimeError"
              /\ fs \cap AssetsTree(moitt.assets) = start.fs \cap AssetsTree(moitt.assets))

C6_Witness ==
    /\ OcpUninstall
    /\ pc = "raised"
    /\ "destroy cluster" \in failed
    /\ PasswordOf(moitt.assets) \in fs

-----------------------------------------------------------------------------
(* C7 *)

DownloadCutShort == dl.fileSize # 0 /\ dl.wrote # dl.fileSize

\* C7, as stated: after an incomplete download no archive has been unpacked,
\* openshift-install has not been executed and no oc/kubectl has been moved.
C7_NothingUnpackedOrRun ==
    DownloadCutShort =>
        NameSet \cap {"unpack installer", "unpack oc", "create cluster",
                      "destroy cluster", "move"} = {}

\* C7, amended: an incomplete download raises RuntimeError before its own
\* archive is unpacked.  After an incomplete installer download nothing has
\* been unpacked, run or moved; after an incomplete oc download the oc
\* archive is not unpacked and no oc/kubectl is moved to $HOME/bin, but the
\* installer has already been unpacked and `create cluster` has already run.
C7_IncompleteDownloadStops ==
    DownloadCutShort =>
        /\ pc = "raised"
        /\ exc = "RuntimeError"
        /\ Name(trace[Len(trace)]) \in {"download installer", "download oc"}
        /\ (Name(trace[Len(trace)]) = "download installer" =>
              NameSet \cap {"unpack installer", "unpack oc", "create cluster",
                            "destroy cluster", "move"} = {})
        /\ (Name(trace[Len(trace)]) = "download oc" =>
              /\ NameSet \cap {"unpack oc", "move"} = {}
              /\ {"unpack installer", "create cluster"} \subseteq NameSet)
        /\ {"$HOME/bin/oc", "$HOME/bin/kubectl", "client/oc"} \cap fs = {}

C7_Witness ==
    /\ DownloadCutShort
    /\ dl.wrote > dl.fileSize
    /\ Name(trace[Len(trace)]) = "download oc"
    /\ "create cluster" \in NameSet

-----------------------------------------------------------------------------
(* C8 *)

\* C8: when `aws --version` exits non-zero the run ends in RuntimeError
\* having run nothing else: the environment is as main() left it
\* (AWS_PROFILE as found), the disk is as found, and no download, no
\* installer, no login, create_users or logout has happened.
C8_AwsCheckedFirst ==
    /\ ("aws --version" \in failed =>
          /\ pc = "raised"
          /\ exc = "RuntimeError"
          /\ trace = << <<"aws", "--version">> >>
          /\ fs = start.fs
          /\ environ = [start.environ EXCEPT
                          !["KUBECONFIG"] = KubeconfigOf(moitt.assets)])
    /\ (NameSet \cap OcpSteps # {} /\ moitt.install => Names[1] = "aws")

C8_Witness ==
    /\ "aws --version" \in failed
    /\ pc = "raised"
    /\ moitt.component = "ocp"
    /\ start.fs = {}

-----------------------------------------------------------------------------
(* C9 *)

IstioInstallQuayOrder ==
    <<"login kubeadmin", "operator.update_quay_token",
      "operator.apply_operator_source", "operator.deploy_jaeger">>
IstioUninstallQuayOrder ==
    <<"operator.uninstall", "operator.uninstall_operator_source", "logout">>

\* the index of the first occurrence of name in Names, 0 when there is none
At(name) ==
    IF name \in NameSet
    THEN CHOOSE k \in 1..Len(trace) :
            Names[k] = name /\ \A j \in 1..(k - 1) : Names[j] # name
    ELSE 0

\* C9: a quay step runs only in the istio branch with -q.  With -q, on
\* install update_quay_token and apply_operator_source directly follow the
\* kubeadmin login, in that order, and deploy_jaeger directly follows them;
\* on uninstall uninstall_operator_source directly follows
\* operator.uninstall and is directly followed by the kubeadmin logout.
\* Without -q deploy_jaeger directly follows the login and the logout
\* directly follows operator.uninstall.
C9_QuayGated ==
    /\ (NameSet \cap QuaySteps # {} => moitt.component = "istio" /\ moitt.quay)
    /\ ("operator.uninstall_operator_source" \in NameSet => moitt.uninstall)
    /\ ({"operator.update_quay_token", "operator.apply_operator_source"}
           \cap NameSet # {} => moitt.install)
    /\ (Istio("install") /\ "operator.deploy_jaeger" \in NameSet =>
          IF moitt.quay
          THEN SubSeq(Names, 1, 4) = IstioInstallQuayOrder
          ELSE SubSeq(Names, 1, 2) = <<"login kubeadmin", "operator.deploy_jaeger">>)
    /\ (Istio("uninstall") /\ pc = "done" =>
          IF moitt.quay
          THEN SubSeq(Names, At("operator.uninstall"), Len(Names))
                  = IstioUninstallQuayOrder
          ELSE SubSeq(Names, At("operator.uninstall"), Len(Names))
                  = <<"operator.uninstall", "logout">>)

C9_Witness ==
    /\ pc = "done"
    /\ Istio("uninstall")
    /\ moitt.quay
    /\ "operator.uninstall_operator_source" \in NameSet

-----------------------------------------------------------------------------
(* C10 *)

ClusterSteps ==
    {"scripts/user-creation.sh"} \cup PullerSteps \cup (IstioSteps \ {"login qe1"})

Logins == {k \in 1..Len(trace) : Names[k] \in {"login kubeadmin", "login qe1"}}
Logouts == {k \in 1..Len(trace) : Names[k] = "logout"}

\* C10: at most one `oc login` is outstanding at any time and never fewer
\* than none; a step on the cluster is made with one login outstanding and
\* KUBECONFIG = <assets>/auth/kubeconfig; a run that returns has made as
\* many logouts as logins, none of either for `-u -c ocp`.
C10_SessionsBracketed ==
    /\ Outstanding(trace) \in {0, 1}
    /\ (trace # <<>> /\ Name(trace[Len(trace)]) \in ClusterSteps =>
          /\ Outstanding(trace) = 1
          /\ environ["KUBECONFIG"] = KubeconfigOf(moitt.assets))
    /\ (pc = "done" =>
          /\ Outstanding(trace) = 0
          /\ Cardinality(Logins) = Cardinality(Logouts))
    /\ (OcpUninstall => Logins = {} /\ Logouts = {})

C10_Witness ==
    /\ pc = "done"
    /\ moitt.component = "registry-puller"
    /\ moitt.install
    /\ "puller.execute" \in NameSet
    /\ Outstanding(trace) = 0
    /\ Cardinality(Logins) = 1

====
